---- MODULE Spec2Model ----
(***************************************************************************)
(* print_files.py: a directory walker that concatenates the text of every  *)
(* file that is not ignored into one output file.                          *)
(*                                                                         *)
(* Strings are sequences of one-character strings, so that fnmatch is      *)
(* computed character by character.  File contents on disk are sequences   *)
(* of bytes (integers); decoding and encoding are computed.                *)
(***************************************************************************)
EXTENDS Integers, Sequences, FiniteSets, TLC

\* Bounds of the model.
MaxWild == 1
MaxBytes == 1
MaxPatterns == 2

VARIABLES
    \* command line (lines 75-84)
    root_dir, output_file, wildcard_files,
    \* file system the run finds
    gitignore, files, scandir_reversed, old_output, disk,
    \* write_files_to_output
    pc, patterns, out, wi, stack, top, pending, cur,
    \* standard output and the history of calls
    stdout, trace,
    \* one call of is_ignored, statement by statement
    fpath, fpatterns, fk, fret, fstdout

args == <<root_dir, output_file, wildcard_files>>
env == <<gitignore, files, scandir_reversed, old_output>>
run == <<disk, pc, patterns, out, wi, stack, top, pending, cur, stdout, trace>>
call == <<fpath, fpatterns, fk, fret, fstdout>>
vars == <<args, env, run, call>>

-----------------------------------------------------------------------------
\* Characters and sequences

NL == "\n"

\* Code points of the characters the model uses.
Ord ==
    "\n" :> 10 @@ " " :> 32 @@ "#" :> 35 @@ "*" :> 42 @@ "-" :> 45
    @@ "." :> 46 @@ "/" :> 47 @@ "1" :> 49 @@ "?" :> 63 @@ "_" :> 95 @@ "a" :> 97
    @@ "b" :> 98 @@ "c" :> 99 @@ "d" :> 100 @@ "e" :> 101 @@ "f" :> 102
    @@ "g" :> 103 @@ "h" :> 104 @@ "i" :> 105 @@ "j" :> 106 @@ "k" :> 107
    @@ "l" :> 108 @@ "m" :> 109 @@ "n" :> 110 @@ "o" :> 111 @@ "p" :> 112
    @@ "q" :> 113 @@ "r" :> 114 @@ "s" :> 115 @@ "t" :> 116 @@ "u" :> 117
    @@ "v" :> 118 @@ "x" :> 120 @@ "y" :> 121
    @@ "U+00A9" :> 169 @@ "U+00C3" :> 195 @@ "U+00E9" :> 233

Chr(n) == CHOOSE c \in DOMAIN Ord : Ord[c] = n

\* The concatenation of ss[lo], ..., ss[hi].
RECURSIVE FlattenRange(_, _, _)
FlattenRange(ss, lo, hi) ==
    IF lo > hi THEN <<>>
    ELSE IF lo = hi THEN ss[lo]
    ELSE FlattenRange(ss, lo, (lo + hi) \div 2)
         \o FlattenRange(ss, (lo + hi) \div 2 + 1, hi)

Flatten(ss) == FlattenRange(ss, 1, Len(ss))

Reverse(s) == [i \in 1..Len(s) |-> s[Len(s) + 1 - i]]

StartsWith(s, prefix) ==
    /\ Len(prefix) <= Len(s)
    /\ SubSeq(s, 1, Len(prefix)) = prefix

SeqsUpTo(S, n) == UNION {[1..m -> S] : m \in 0..n}

-----------------------------------------------------------------------------
\* fnmatch.fnmatch(name, pat): '*' matches any run of characters ('/' too),
\* '?' one character, anything else itself.  No pattern of the model holds
\* a '[', so character classes are not modelled.  posix normcase is the
\* identity on the model's alphabet (no operation on a str).

\* The positions of name that the first j - 1 characters of pat can reach
\* are kept as a set, as a matcher of the translated regular expression does.
RECURSIVE fnmatchcase(_, _, _, _)
fnmatchcase(name, pat, j, reached) ==
    IF reached = {} THEN FALSE
    ELSE IF j > Len(pat) THEN (Len(name) + 1) \in reached
    ELSE IF pat[j] = "*"
    THEN LET first == CHOOSE m \in reached : \A x \in reached : m <= x
         IN  fnmatchcase(name, pat, j + 1, first..(Len(name) + 1))
    ELSE fnmatchcase(name, pat, j + 1,
            {i + 1 : i \in {k \in reached :
                k <= Len(name) /\ (pat[j] = "?" \/ name[k] = pat[j])}})

fnmatch(name, pat) == fnmatchcase(name, pat, 1, {1})

\* Line 23 with the second fnmatch left out.
PatternHitsDirectOnly(path, pattern) == fnmatch(path, pattern)

\* Line 23: the test is_ignored makes for one pattern.
PatternHits(path, pattern) ==
    \/ fnmatch(path, pattern)
    \/ fnmatch(path, <<"*", "/">> \o pattern)

\* Lines 22-26: the loop with its early return; the value returned.
RECURSIVE is_ignored_from(_, _, _)
is_ignored_from(path, pats, k) ==
    IF k > Len(pats) THEN FALSE
    ELSE IF PatternHits(path, pats[k]) THEN TRUE
    ELSE is_ignored_from(path, pats, k + 1)

is_ignored(path, pats) == is_ignored_from(path, pats, 1)

\* Lines 86-110.
additional_patterns == <<
    <<".", "g", "i", "t">>, <<".", "g", "i", "t", "i", "g", "n", "o", "r", "e">>, <<"*", ".", "p", "y">>, <<"*", ".", "l", "o", "c", "k">>, <<"*", ".", "l", "o", "c", "k", "b">>, <<"*", ".", "p", "n", "g">>,
    <<"*", ".", "j", "p", "g">>, <<"*", ".", "j", "p", "e", "g">>, <<"*", ".", "i", "c", "o">>, <<"*", ".", "g", "i", "f">>, <<"*", ".", "s", "v", "g">>, <<"*", ".", "p", "d", "f">>,
    <<"*", ".", "d", "o", "c">>, <<"*", ".", "d", "o", "c", "x">>, <<"*", ".", "s", "q", "l", "i", "t", "e", "*">>, <<"*", ".", "p", "p", "t">>, <<"*", ".", "p", "p", "t", "x">>,
    <<"*", "-", "l", "o", "c", "k", ".", "j", "s", "o", "n">>, <<".", "d", "e", "v", "c", "o", "n", "t", "a", "i", "n", "e", "r">>, <<".", "v", "s", "c", "o", "d", "e">>, <<"n", "o", "d", "e", "_", "m", "o", "d", "u", "l", "e", "s">>,
    <<"p", "r", "i", "s", "m", "a", "/", "m", "i", "g", "r", "a", "t", "i", "o", "n", "s">>, <<".", "n", "e", "x", "t">> >>

-----------------------------------------------------------------------------
\* read_gitignore (lines 10-18)

Whitespace == {" ", NL}

RECURSIVE LStrip(_)
LStrip(s) == IF s # <<>> /\ Head(s) \in Whitespace THEN LStrip(Tail(s)) ELSE s

RECURSIVE RStrip(_)
RStrip(s) ==
    IF s # <<>> /\ s[Len(s)] \in Whitespace
    THEN RStrip(SubSeq(s, 1, Len(s) - 1)) ELSE s

Strip(s) == RStrip(LStrip(s))

RECURSIVE ParseLines(_)
ParseLines(lines) ==
    IF lines = <<>> THEN <<>>
    ELSE LET line == Strip(Head(lines))
         IN  IF line # <<>> /\ Head(line) # "#"
             THEN <<line>> \o ParseLines(Tail(lines))
             ELSE ParseLines(Tail(lines))

\* os.path.exists(".gitignore") false: no pattern.  (An unreadable file
\* raises in open, line 13: see ReadGitignore.)
read_gitignore(g) == IF g.exists THEN ParseLines(g.lines) ELSE <<>>

-----------------------------------------------------------------------------
\* read_file_contents (lines 29-35)

\* The utf-8 codec on one- and two-byte sequences.  The bytes of the model
\* are below 0xE0, so longer sequences do not occur.
IsAscii(x) == x < 128
IsLead2(x) == x >= 194 /\ x <= 223
IsContinuation(x) == x >= 128 /\ x <= 191

Utf8Valid(b) ==
    \A i \in 1..Len(b) :
        \/ IsAscii(b[i])
        \/ IsLead2(b[i]) /\ i + 1 <= Len(b) /\ IsContinuation(b[i + 1])
        \/ IsContinuation(b[i]) /\ i > 1 /\ IsLead2(b[i - 1])

\* Decoding valid bytes: one character for each byte that starts a sequence.
Utf8Text(b) ==
    LET starts == SelectSeq([i \in 1..Len(b) |-> i],
                            LAMBDA i : ~IsContinuation(b[i]))
    IN  [k \in 1..Len(starts) |->
            IF IsAscii(b[starts[k]]) THEN Chr(b[starts[k]])
            ELSE Chr((b[starts[k]] - 192) * 64 + (b[starts[k] + 1] - 128))]

\* The latin-1 codec: each byte is the character of that code point.
Latin1Text(b) == [i \in 1..Len(b) |-> Chr(b[i])]

Utf8EncodeChar(c) ==
    IF Ord[c] < 128 THEN <<Ord[c]>>
    ELSE <<192 + (Ord[c] \div 64), 128 + (Ord[c] % 64)>>

Utf8Encode(s) == Flatten([i \in 1..Len(s) |-> Utf8EncodeChar(s[i])])

\* read_file_contents with the OSError of open swallowed.
read_file_contents_swallow(f) ==
    IF ~f.readable THEN [raised |-> FALSE, text |-> <<>>]
    ELSE IF Utf8Valid(f.bytes)
    THEN [raised |-> FALSE, text |-> Utf8Text(f.bytes)]
    ELSE [raised |-> FALSE, text |-> Latin1Text(f.bytes)]

\* read_file_contents without the except branch.
read_file_contents_nofallback(f) ==
    IF ~f.readable THEN [raised |-> TRUE, text |-> <<>>]
    ELSE IF Utf8Valid(f.bytes)
    THEN [raised |-> FALSE, text |-> Utf8Text(f.bytes)]
    ELSE [raised |-> TRUE, text |-> <<>>]

\* f is what open finds at the path: whether it can be opened, its bytes.
read_file_contents(f) ==
    IF ~f.readable THEN [raised |-> TRUE, text |-> <<>>]
    ELSE IF Utf8Valid(f.bytes)
    THEN [raised |-> FALSE, text |-> Utf8Text(f.bytes)]
    ELSE [raised |-> FALSE, text |-> Latin1Text(f.bytes)]

-----------------------------------------------------------------------------
\* The file system of the working directory:
\*   a.txt  b.py  [.gitignore]  [output.txt]
\*   node_modules/inner.txt  node_modules/pkg/i.js
\*   sub/c.txt

Dot == <<".">>
NodeModules == <<"n", "o", "d", "e", "_", "m", "o", "d", "u", "l", "e", "s">>
Missing == <<"m", "i", "s", "s", "i", "n", "g">>
A_txt == <<"a", ".", "t", "x", "t">>
B_py == <<"b", ".", "p", "y">>
Inner_txt == <<"n", "o", "d", "e", "_", "m", "o", "d", "u", "l", "e", "s", "/", "i", "n", "n", "e", "r", ".", "t", "x", "t">>
I_js == <<"n", "o", "d", "e", "_", "m", "o", "d", "u", "l", "e", "s", "/", "p", "k", "g", "/", "i", ".", "j", "s">>
C_txt == <<"s", "u", "b", "/", "c", ".", "t", "x", "t">>
Output_txt == <<"o", "u", "t", "p", "u", "t", ".", "t", "x", "t">>
NoDir_out == <<"n", "o", "d", "i", "r", "/", "o", ".", "t", "x", "t">>
Gitignore_path == <<".", "g", "i", "t", "i", "g", "n", "o", "r", "e">>

\* os.path.join(top, name), line 59 and line 61.
Join(t, name) ==
    IF t = <<>> THEN name
    ELSE IF t[Len(t)] = "/" THEN t \o name
    ELSE t \o <<"/">> \o name

\* The file a relative path names: a leading "./" names the same file.
Canon(p) == IF StartsWith(p, <<".", "/">>) THEN SubSeq(p, 3, Len(p)) ELSE p

\* os.scandir as os.walk uses it (line 57): the names in a directory, in
\* ascending order; a path that is no directory cannot be listed.
Listing(d) ==
    IF d = Dot
    THEN [ok |-> TRUE,
          dirs |-> <<NodeModules, <<"s", "u", "b">>>>,
          files |-> (IF gitignore.exists THEN <<Gitignore_path>> ELSE <<>>)
                    \o <<A_txt, B_py>>
                    \o (IF disk.exists /\ output_file = Output_txt
                        THEN <<Output_txt>> ELSE <<>>)]
    ELSE IF d = NodeModules
    THEN [ok |-> TRUE, dirs |-> <<<<"p", "k", "g">>>>, files |-> <<<<"i", "n", "n", "e", "r", ".", "t", "x", "t">>>>]
    ELSE IF d = <<"n", "o", "d", "e", "_", "m", "o", "d", "u", "l", "e", "s", "/", "p", "k", "g">>
    THEN [ok |-> TRUE, dirs |-> <<>>, files |-> <<<<"i", ".", "j", "s">>>>]
    ELSE IF d = <<"s", "u", "b">>
    THEN [ok |-> TRUE, dirs |-> <<>>, files |-> <<<<"c", ".", "t", "x", "t">>>>]
    ELSE [ok |-> FALSE, dirs |-> <<>>, files |-> <<>>]

\* The order in which the file system hands the names out is its own.
Scandir(d) ==
    LET l == Listing(Canon(d))
    IN  IF scandir_reversed
        THEN [ok |-> l.ok, dirs |-> Reverse(l.dirs), files |-> Reverse(l.files)]
        ELSE l

FilePaths == {A_txt, B_py, Inner_txt, I_js, C_txt}

FixedFiles ==
    [p \in FilePaths \ {A_txt} |->
        [readable |-> TRUE,
         bytes |-> IF p = B_py THEN <<98>>
                   ELSE IF p = Inner_txt THEN <<105>>
                   ELSE IF p = I_js THEN <<106>>
                   ELSE <<99>>]]

\* What a.txt may hold: any bytes among 0xC3 and 0xA9, or no permission.
ByteStrings == SeqsUpTo({195, 169}, MaxBytes)

A_txt_states ==
    {[readable |-> TRUE, bytes |-> b] : b \in ByteStrings}
    \cup {[readable |-> FALSE, bytes |-> <<>>]}

GitignoreStates == {
    [exists |-> FALSE, readable |-> FALSE, lines |-> <<>>],
    [exists |-> TRUE, readable |-> FALSE, lines |-> <<>>],
    [exists |-> TRUE, readable |-> TRUE,
     lines |-> <<<<"#", " ", "l", "o", "c", "a", "l", "\n">>, <<"\n">>, <<" ", "s", "u", "b", " ", "\n">>>>] }

OldOutputStates == {
    [exists |-> FALSE, bytes |-> <<>>],
    [exists |-> TRUE, bytes |-> <<111, 108, 100, 10>>] }

\* The bytes written so far, as the disk holds them when k writes are flushed.
Flushed(k) == disk.bytes \o Utf8Encode(Flatten(SubSeq(out, 1, k)))

\* What open(path, "r") finds while the run has flushed k of its writes.
Lookup(path, k) ==
    LET c == Canon(path)
    IN  IF disk.exists /\ c = Canon(output_file)
        THEN [readable |-> TRUE, bytes |-> Flushed(k)]
        ELSE IF c \in DOMAIN files THEN files[c]
        ELSE [readable |-> FALSE, bytes |-> <<>>]

\* How much of the buffered output the disk may hold when path is opened.
FlushPoints(path) ==
    IF Canon(path) = Canon(output_file) THEN 0..Len(out) ELSE {0}

\* open(output_file, "a") instead of "w".
OpenForAppending(d) == [exists |-> TRUE, bytes |-> d.bytes]

\* Line 47: open(output_file, "w") creates the file or truncates it.
OpenForWriting(d) == [exists |-> TRUE, bytes |-> <<>>]

\* Leaving the with block of line 47, normally or by an exception, closes
\* the file: everything written is on disk.
Closed == [exists |-> TRUE, bytes |-> Flushed(Len(out))]

\* The path line without its newline.
PathLineBare(path) == path

\* Lines 51 and 64.
PathLine(path) == path \o <<NL>>

\* Lines 54 and 67.
Separator == <<NL, NL>>

\* Line 59, the calls: is_ignored(os.path.join(root, d), patterns) for each
\* d of dirs, in order.
RECURSIVE IgnoredDirs(_, _, _)
IgnoredDirs(t, dirs, pats) ==
    IF dirs = <<>> THEN <<>>
    ELSE <<is_ignored(Join(t, Head(dirs)), pats)>> \o IgnoredDirs(t, Tail(dirs), pats)

\* The positions of a sequence of flags that hold FALSE, in order.
RECURSIVE Unflagged(_, _)
Unflagged(flags, i) ==
    IF i > Len(flags) THEN <<>>
    ELSE (IF flags[i] THEN <<>> ELSE <<i>>) \o Unflagged(flags, i + 1)

\* Every subdirectory kept.
KeepAllDirs(dirs, ignored) == dirs

\* Line 59, the assignment: dirs[:] = [d for d in dirs if not is_ignored(..)],
\* ignored[i] being what is_ignored returned for dirs[i].
KeepDirs(dirs, ignored) ==
    LET keep == Unflagged(ignored, 1)
    IN  [i \in 1..Len(keep) |-> dirs[keep[i]]]

\* One call in the history: op is "open", "scandir", "read" (res: whether the
\* system call succeeded), "filter_dir" or "filter_file" (res: what
\* is_ignored returned); text is what a read returned.
Rec(op, path, phase, res, text) ==
    [op |-> op, path |-> path, phase |-> phase, res |-> res, text |-> text]

\* The paths is_ignored prints (line 25) while line 59 filters dirs.
Printed(t, dirs, ignored) ==
    LET shown == Unflagged(ignored, 1)
    IN  [i \in 1..Len(shown) |-> Join(t, dirs[shown[i]])]

-----------------------------------------------------------------------------
\* The run: __main__ (lines 69-112) and write_files_to_output (38-67)

CallIdle ==
    /\ fpath = <<>> /\ fpatterns = <<>> /\ fk = 0
    /\ fret = "idle" /\ fstdout = <<>>

\* glob.glob yields paths that exist when it runs, before the output file
\* is opened (lines 82-84).
GlobCandidates(old, o) ==
    {A_txt, B_py, Inner_txt} \cup (IF old.exists THEN {o} ELSE {})

Init ==
    /\ root_dir \in {Dot, NodeModules, Missing}
    /\ output_file \in {Output_txt, NoDir_out}
    /\ old_output \in OldOutputStates
    /\ (output_file = NoDir_out => ~old_output.exists)
    /\ wildcard_files \in SeqsUpTo(GlobCandidates(old_output, output_file), MaxWild)
    /\ gitignore \in GitignoreStates
    /\ \E a \in A_txt_states : files = (A_txt :> a) @@ FixedFiles
    /\ scandir_reversed \in BOOLEAN
    /\ disk = old_output
    /\ pc = "start"
    /\ patterns = <<>> /\ out = <<>> /\ wi = 1
    /\ stack = <<>> /\ top = <<>> /\ pending = <<>> /\ cur = <<>>
    /\ stdout = <<>> /\ trace = <<>>
    /\ CallIdle

\* Lines 44-45.  open of an existing .gitignore that cannot be read raises.
ReadGitignore ==
    /\ pc = "start"
    /\ IF gitignore.exists /\ ~gitignore.readable
       THEN /\ pc' = "failed"
            /\ trace' = Append(trace, Rec("open", Gitignore_path, "setup", FALSE, <<>>))
            /\ UNCHANGED patterns
       ELSE /\ pc' = "open"
            /\ patterns' = read_gitignore(gitignore) \o additional_patterns
            /\ UNCHANGED trace
    /\ UNCHANGED <<args, env, disk, out, wi, stack, top, pending, cur, stdout, call>>

\* Line 47.  The directory nodir does not exist: open raises.
OpenOutput ==
    /\ pc = "open"
    /\ IF output_file = NoDir_out
       THEN /\ pc' = "failed"
            /\ trace' = Append(trace, Rec("open", output_file, "setup", FALSE, <<>>))
            /\ UNCHANGED disk
       ELSE /\ pc' = "wildcard"
            /\ disk' = OpenForWriting(disk)
            /\ trace' = Append(trace, Rec("open", output_file, "setup", TRUE, <<>>))
    /\ UNCHANGED <<args, env, patterns, out, wi, stack, top, pending, cur, stdout, call>>

\* Lines 49-51: is_ignored on the next wildcard file; a file that is not
\* ignored is printed (line 25) and its path line is written.
\* (ignored is what is_ignored returned for wildcard_file.)
WildcardFileBody(wildcard_file, ignored) ==
    /\ trace' = Append(trace, Rec("filter_file", wildcard_file, "wildcard", ignored, <<>>))
    /\ IF ignored
       THEN /\ wi' = wi + 1
            /\ UNCHANGED <<pc, out, cur, stdout>>
       ELSE /\ stdout' = Append(stdout, wildcard_file)
            /\ out' = Append(out, PathLine(wildcard_file))
            /\ cur' = wildcard_file
            /\ pc' = "wildcard_read"
            /\ UNCHANGED wi

WildcardFile ==
    /\ pc = "wildcard"
    /\ wi <= Len(wildcard_files)
    /\ WildcardFileBody(wildcard_files[wi], is_ignored(wildcard_files[wi], patterns))
    /\ UNCHANGED <<args, env, disk, patterns, stack, top, pending, call>>

\* Lines 52-53 and 65-66: read the file, write what was read; an exception
\* leaves the with block, which closes the output, and ends the run.
\* (f is what open finds at cur, r what read_file_contents does with it.)
ReadAndWriteBody(phase, next, f, r) ==
    /\ trace' = Append(trace, Rec("read", cur, phase, f.readable, r.text))
    /\ IF r.raised
       THEN /\ pc' = "failed"
            /\ disk' = Closed
            /\ UNCHANGED out
       ELSE /\ pc' = next
            /\ out' = Append(out, r.text)
            /\ UNCHANGED disk

ReadAndWrite(phase, next) ==
    \E k \in FlushPoints(cur) :
        ReadAndWriteBody(phase, next, Lookup(cur, k), read_file_contents(Lookup(cur, k)))

WildcardRead ==
    /\ pc = "wildcard_read"
    /\ ReadAndWrite("wildcard", "wildcard_sep")
    /\ UNCHANGED <<args, env, patterns, wi, stack, top, pending, cur, stdout, call>>

\* Line 54.
WildcardSep ==
    /\ pc = "wildcard_sep"
    /\ out' = Append(out, Separator)
    /\ wi' = wi + 1
    /\ pc' = "wildcard"
    /\ UNCHANGED <<args, env, disk, patterns, stack, top, pending, cur, stdout, trace, call>>

\* Line 57: the wildcard loop is over, os.walk(root_dir) starts.
StartWalk ==
    /\ pc = "wildcard"
    /\ wi > Len(wildcard_files)
    /\ stack' = <<root_dir>>
    /\ pc' = "walk"
    /\ UNCHANGED <<args, env, disk, patterns, out, wi, top, pending, cur, stdout, trace, call>>

\* Lines 57-59: os.walk lists the next directory; a directory it cannot
\* list yields nothing (onerror is None).  The body filters dirs in place,
\* and os.walk descends into what is left after the files of this one.
\* (l is the listing of d, ignored what is_ignored returned for each of
\* l.dirs.)
WalkDirBody(d, l, ignored) ==
    /\ top' = d
    /\ pending' = l.files
    /\ stack' = [i \in 1..Len(KeepDirs(l.dirs, ignored)) |->
                    Join(d, KeepDirs(l.dirs, ignored)[i])] \o Tail(stack)
    /\ stdout' = stdout \o Printed(d, l.dirs, ignored)
    /\ trace' = trace \o <<Rec("scandir", d, "walk", l.ok, <<>>)>>
           \o [i \in 1..Len(l.dirs) |->
                 Rec("filter_dir", Join(d, l.dirs[i]), "walk", ignored[i], <<>>)]

WalkDir ==
    /\ pc = "walk"
    /\ pending = <<>>
    /\ stack # <<>>
    /\ WalkDirBody(Head(stack), Scandir(Head(stack)),
                   IgnoredDirs(Head(stack), Scandir(Head(stack)).dirs, patterns))
    /\ UNCHANGED <<args, env, disk, pc, patterns, out, wi, cur, call>>

\* Lines 60-64: is_ignored on the next file of the directory; a file that
\* is not ignored is printed (line 25) and its path line is written.
\* (ignored is what is_ignored returned for file_path.)
WalkFileBody(file_path, ignored) ==
    /\ trace' = Append(trace, Rec("filter_file", file_path, "walk", ignored, <<>>))
    /\ IF ignored
       THEN /\ pending' = Tail(pending)
            /\ UNCHANGED <<pc, out, cur, stdout>>
       ELSE /\ stdout' = Append(stdout, file_path)
            /\ out' = Append(out, PathLine(file_path))
            /\ cur' = file_path
            /\ pc' = "walk_read"
            /\ UNCHANGED pending

WalkFile ==
    /\ pc = "walk"
    /\ pending # <<>>
    /\ WalkFileBody(Join(top, Head(pending)),
                    is_ignored(Join(top, Head(pending)), patterns))
    /\ UNCHANGED <<args, env, disk, patterns, wi, stack, top, call>>

WalkRead ==
    /\ pc = "walk_read"
    /\ ReadAndWrite("walk", "walk_sep")
    /\ UNCHANGED <<args, env, patterns, wi, stack, top, pending, cur, stdout, call>>

\* Line 67.
WalkSep ==
    /\ pc = "walk_sep"
    /\ out' = Append(out, Separator)
    /\ pending' = Tail(pending)
    /\ pc' = "walk"
    /\ UNCHANGED <<args, env, disk, patterns, wi, stack, top, cur, stdout, trace, call>>

\* os.walk is exhausted: the with block closes the output, the run ends.
Finish ==
    /\ pc = "walk"
    /\ pending = <<>>
    /\ stack = <<>>
    /\ disk' = Closed
    /\ pc' = "done"
    /\ UNCHANGED <<args, env, patterns, out, wi, stack, top, pending, cur, stdout, trace, call>>

Next ==
    \/ ReadGitignore \/ OpenOutput
    \/ WildcardFile \/ WildcardRead \/ WildcardSep
    \/ StartWalk \/ WalkDir \/ WalkFile \/ WalkRead \/ WalkSep
    \/ Finish

Spec == Init /\ [][Next]_vars

-----------------------------------------------------------------------------
\* One call of is_ignored (lines 21-26), statement by statement

FilterPaths == {
    <<"f", "o", "o", ".", "p", "y">>, <<"d", "i", "r", "/", "f", "o", "o", ".", "p", "y">>, <<".", "g", "i", "t">>, <<"s", "u", "b", "/", ".", "g", "i", "t">>, <<".", "g", "i", "t", "h", "u", "b">>,
    <<"a", "/", "b", "/", ".", "g", "i", "t">>, <<".", "/", "n", "o", "d", "e", "_", "m", "o", "d", "u", "l", "e", "s">>, <<"n", "o", "d", "e", "_", "m", "o", "d", "u", "l", "e", "s", "/", "i", "n", "n", "e", "r", ".", "t", "x", "t">>,
    <<"p", "r", "i", "s", "m", "a", "/", "m", "i", "g", "r", "a", "t", "i", "o", "n", "s">>, <<"x", "/", "p", "r", "i", "s", "m", "a", "/", "m", "i", "g", "r", "a", "t", "i", "o", "n", "s", "/", "1", ".", "s", "q", "l">>, <<"f", "o", "o", "_", "p", "y">> }

FilterPatterns == {
    <<"*", ".", "p", "y">>, <<".", "g", "i", "t">>, <<"n", "o", "d", "e", "_", "m", "o", "d", "u", "l", "e", "s">>, <<"p", "r", "i", "s", "m", "a", "/", "m", "i", "g", "r", "a", "t", "i", "o", "n", "s">>, <<"f", "o", "o", "?", "p", "y">> }

RunIdle ==
    /\ root_dir = <<>> /\ output_file = <<>> /\ wildcard_files = <<>>
    /\ gitignore = [exists |-> FALSE, readable |-> FALSE, lines |-> <<>>]
    /\ files = FixedFiles /\ scandir_reversed = FALSE
    /\ old_output = [exists |-> FALSE, bytes |-> <<>>]
    /\ disk = old_output
    /\ pc = "idle"
    /\ patterns = <<>> /\ out = <<>> /\ wi = 1
    /\ stack = <<>> /\ top = <<>> /\ pending = <<>> /\ cur = <<>>
    /\ stdout = <<>> /\ trace = <<>>

InitFilter ==
    /\ RunIdle
    /\ fpath \in FilterPaths
    /\ fpatterns \in SeqsUpTo(FilterPatterns, MaxPatterns)
    /\ fk = 1
    /\ fret = "running"
    /\ fstdout = <<>>

\* Lines 22-24: one iteration of the loop.
IsIgnoredTest ==
    /\ fret = "running"
    /\ fk <= Len(fpatterns)
    /\ IF PatternHits(fpath, fpatterns[fk])
       THEN fret' = "True" /\ UNCHANGED fk
       ELSE fk' = fk + 1 /\ UNCHANGED fret
    /\ UNCHANGED <<args, env, run, fpath, fpatterns, fstdout>>

\* Lines 25-26: no pattern matched.
IsIgnoredFallThrough ==
    /\ fret = "running"
    /\ fk > Len(fpatterns)
    /\ fstdout' = Append(fstdout, fpath)
    /\ fret' = "False"
    /\ UNCHANGED <<args, env, run, fpath, fpatterns, fk>>

NextFilter == IsIgnoredTest \/ IsIgnoredFallThrough

SpecFilter == InitFilter /\ [][NextFilter]_vars

-----------------------------------------------------------------------------
\* What the properties are stated in

IsEntry(r) == r.op = "filter_file" /\ ~r.res

IsGoodRead(r) == r.op = "read" /\ r.res

GoodReads == SelectSeq(trace, IsGoodRead)

UnitsOf(reads) ==
    Flatten([i \in 1..Len(reads) |->
        reads[i].path \o <<"\n">> \o reads[i].text \o <<"\n", "\n">>])

Beneath(p, d) == StartsWith(p, d \o <<"/">>)

UnderDirNamed(p, name) ==
    \E i \in 1..Len(p) :
        /\ i = 1 \/ p[i - 1] = "/"
        /\ i + Len(name) <= Len(p)
        /\ SubSeq(p, i, i + Len(name) - 1) = name
        /\ p[i + Len(name)] = "/"

UnderRoot(p) == root_dir = Dot \/ Beneath(Canon(p), root_dir)

IoFailure(r) == r.op \in {"open", "read", "scandir"} /\ ~r.res

OpenFailure(r) == r.op \in {"open", "read"} /\ ~r.res

LastCall == trace[Len(trace)]

-----------------------------------------------------------------------------
\* C1: is_ignored(P, S) returns true exactly when some pattern p of S
\* matches P under fnmatch, directly or as '*/p'; '*.py' excludes foo.py and
\* dir/foo.py, '.git' excludes .git and sub/.git but not .github.
C1_IsIgnoredIff ==
    fret \in {"True", "False"} =>
        /\ (fret = "True") <=>
               \E i \in 1..Len(fpatterns) :
                   \/ fnmatch(fpath, fpatterns[i])
                   \/ fnmatch(fpath, <<"*", "/">> \o fpatterns[i])
        /\ (fpatterns = <<<<"*", ".", "p", "y">>>> /\ fpath \in {<<"f", "o", "o", ".", "p", "y">>, <<"d", "i", "r", "/", "f", "o", "o", ".", "p", "y">>})
               => fret = "True"
        /\ (fpatterns = <<<<".", "g", "i", "t">>>> /\ fpath \in {<<".", "g", "i", "t">>, <<"s", "u", "b", "/", ".", "g", "i", "t">>})
               => fret = "True"
        /\ (fpatterns = <<<<".", "g", "i", "t">>>> /\ fpath = <<".", "g", "i", "t", "h", "u", "b">>) => fret = "False"

C1_Witness ==
    /\ fret = "True"
    /\ fpath = <<"s", "u", "b", "/", ".", "g", "i", "t">>
    /\ fpatterns = <<<<"*", ".", "p", "y">>, <<".", "g", "i", "t">>>>

\* C2: no file beneath a directory named node_modules ever gets an entry in
\* the output, from the wildcard pass or from the walk.
C2_NothingUnderNodeModulesWritten ==
    \A i \in DOMAIN trace :
        IsEntry(trace[i]) => ~UnderDirNamed(trace[i].path, NodeModules)

\* C3: every wildcard entry precedes every walk entry, the wildcard files
\* are taken in the order of the list, duplicates kept, and a wildcard file
\* that is written and lies under the root is written again by the walk.
C3_WildcardFirstAndWrittenTwice ==
    LET wild == SelectSeq(trace, LAMBDA r : r.op = "filter_file" /\ r.phase = "wildcard")
    IN  /\ \A i, j \in DOMAIN trace :
               (IsEntry(trace[i]) /\ trace[i].phase = "walk"
                /\ IsEntry(trace[j]) /\ trace[j].phase = "wildcard") => j < i
        /\ Len(wild) <= Len(wildcard_files)
        /\ \A i \in DOMAIN wild : wild[i].path = wildcard_files[i]
        /\ pc = "done" =>
               \A i \in DOMAIN wild :
                   (~wild[i].res /\ UnderRoot(wild[i].path)) =>
                       \E j \in DOMAIN trace :
                           /\ IsEntry(trace[j])
                           /\ trace[j].phase = "walk"
                           /\ Canon(trace[j].path) = Canon(wild[i].path)

\* C4: no read_file_contents call of the run reads the run's output file.
C4_OutputNeverReadBack ==
    \A i \in DOMAIN trace :
        trace[i].op = "read" => Canon(trace[i].path) # Canon(output_file)

\* C5: after a run that ends normally the output file holds exactly the
\* units path, newline, content, two newlines of the files written, in write
\* order, whatever the file held before the run.
C5_OutputIsTheUnits ==
    pc = "done" =>
        /\ disk.exists
        /\ Utf8Valid(disk.bytes)
        /\ Utf8Text(disk.bytes) = UnitsOf(GoodReads)

C5_Witness ==
    /\ pc = "done"
    /\ old_output.exists /\ old_output.bytes # <<>>
    /\ Len(GoodReads) >= 2

\* C6: a file that is not ignored and whose bytes are not valid UTF-8 is
\* read as Latin-1 (each byte the character of that code point), its content
\* is written after its path line, and the run does not fail at it.
C6_InvalidUtf8ReadAsLatin1 ==
    \A i \in DOMAIN trace :
        LET r == trace[i]
            c == Canon(r.path)
        IN  (/\ r.op = "read"
             /\ c \in DOMAIN files
             /\ files[c].readable
             /\ ~Utf8Valid(files[c].bytes))
            => /\ Len(r.text) = Len(files[c].bytes)
               /\ \A j \in DOMAIN r.text : Ord[r.text[j]] = files[c].bytes[j]
               /\ ~(pc = "failed" /\ i = Len(trace))
               /\ \E j \in 2..Len(out) :
                      out[j - 1] = r.path \o <<"\n">> /\ out[j] = r.text

C6_Witness ==
    /\ pc = "done"
    /\ \E i \in DOMAIN trace :
           /\ trace[i].op = "read"
           /\ Canon(trace[i].path) = A_txt
           /\ files[A_txt].readable
           /\ ~Utf8Valid(files[A_txt].bytes)
           /\ i < Len(trace)

\* C7: when a file that is not ignored cannot be opened, the run ends there
\* in failure: that read is the last call of the run, and the output file is
\* left holding the entries written before it and the path line of the file.
C7_UnreadableFileAborts ==
    \A i \in DOMAIN trace :
        (trace[i].op = "read" /\ ~trace[i].res)
        => /\ i = Len(trace)
           /\ pc = "failed"
           /\ disk.exists
           /\ Utf8Valid(disk.bytes)
           /\ Utf8Text(disk.bytes)
                  = UnitsOf(GoodReads) \o trace[i].path \o <<"\n">>

C7_Witness ==
    /\ pc = "failed"
    /\ LastCall.op = "read"
    /\ LastCall.phase = "walk"
    /\ Len(GoodReads) >= 1

\* C8 as stated: every failed input or output operation of a run (a file
\* that cannot be opened, a directory that cannot be listed) ends the run in
\* failure, so a run that ends normally had none.
C8_EveryIoFailureAborts ==
    (\E i \in DOMAIN trace : IoFailure(trace[i])) => pc = "failed"

\* C8 amended: a run fails exactly when a file could not be opened (the
\* ignore file, the output file, a file that is not ignored); a directory
\* that cannot be listed, the root included, does not make it fail.
C8_FailsIffOpenFails ==
    (pc = "failed") <=> (\E i \in DOMAIN trace : OpenFailure(trace[i]))

C8_Witness ==
    /\ pc = "done"
    /\ \E i \in DOMAIN trace : trace[i].op = "scandir" /\ ~trace[i].res

\* C9: a subdirectory for which is_ignored returns true is never listed by
\* the walk, and the walk makes no call (listing, is_ignored, read) on any
\* path beneath it.
C9_PrunedNeverVisited ==
    \A i \in DOMAIN trace :
        (trace[i].op = "filter_dir" /\ trace[i].res) =>
            /\ \A j \in DOMAIN trace :
                   trace[j].phase = "walk" =>
                       /\ ~(trace[j].op = "scandir" /\ trace[j].path = trace[i].path)
                       /\ ~Beneath(trace[j].path, trace[i].path)
            /\ \A k \in DOMAIN stack :
                   stack[k] # trace[i].path /\ ~Beneath(stack[k], trace[i].path)

C9_Witness ==
    /\ pc = "done"
    /\ \E i \in DOMAIN trace :
           /\ trace[i].op = "filter_dir" /\ trace[i].res
           /\ trace[i].path = <<".", "/", "n", "o", "d", "e", "_", "m", "o", "d", "u", "l", "e", "s">>
    /\ \E i \in DOMAIN trace :
           trace[i].op = "scandir" /\ trace[i].path = <<".", "/", "s", "u", "b">>

\* C10: at every point of a run what has been written is complete entries
\* followed by at most one incomplete entry (a path line, or a path line
\* and a content); after a failed read it ends with the path line of the
\* file that failed.
C10_CompleteEntriesThenOnePartial ==
    LET written == Flatten(out)
        reads == GoodReads
    IN  CASE pc \in {"wildcard_read", "walk_read"} ->
                 written = UnitsOf(reads) \o cur \o <<"\n">>
          [] pc \in {"wildcard_sep", "walk_sep"} ->
                 /\ reads # <<>>
                 /\ written = UnitsOf(SubSeq(reads, 1, Len(reads) - 1))
                                  \o cur \o <<"\n">> \o reads[Len(reads)].text
          [] pc = "failed" /\ LastCall.op = "read" ->
                 written = UnitsOf(reads) \o LastCall.path \o <<"\n">>
          [] OTHER -> written = UnitsOf(reads)

C10_Witness ==
    /\ pc = "walk_sep"
    /\ Len(GoodReads) >= 3
    /\ GoodReads[Len(GoodReads)].text # <<>>

=============================================================================
